---- MODULE Spec2Model ----
(***************************************************************************)
(* Clearing house accounting core: the spot exposure tracker and balance   *)
(* ledger (controller/spot_position.rs), the AMM JIT sizer                 *)
(* (math/amm_jit.rs) and the margin validators (validation/margin.rs).     *)
(*                                                                         *)
(* Every Rust function is an operator that returns a result record         *)
(* [ok, err, ...]; a `?` in the source is an early return of the error.    *)
(* A function that takes `&mut` records returns the records as they are    *)
(* left when it returns, on the error paths too.                           *)
(*                                                                         *)
(* TLC's integers are 32 bits wide, so the integer types are modelled at a *)
(* reduced width that keeps their order: i64 < u64 < u128, and u128 holds  *)
(* the product of a u64 and a u8.                                          *)
(***************************************************************************)
EXTENDS Integers, Sequences, FiniteSets, TLC

\* ------------------------------------------------------------ integer types

\* Largest value of the model's i64, u64 and u128.
MaxI64 == 127
MaxU64 == 255
MaxU128 == 65535

MinI64 == -MaxI64 - 1
MaxI128 == MaxU128 \div 2

Min(a, b) == IF a <= b THEN a ELSE b
Max(a, b) == IF a >= b THEN a ELSE b
Abs(a) == IF a < 0 THEN -a ELSE a

NoError == "None"
MathError == "MathError"
DefaultError == "DefaultError"

Ok(v) == [ok |-> TRUE, err |-> NoError, val |-> v]
Err(e) == [ok |-> FALSE, err |-> e, val |-> 0]

\* cast / Cast::cast: the value when the target type holds it, else an error.
cast(v, lo, hi) == IF v < lo \/ v > hi THEN Err(MathError) ELSE Ok(v)

\* checked_add(..).ok_or_else(math_error!()) in a type of range lo..hi.
checked_add(a, b, lo, hi) == cast(a + b, lo, hi)

\* checked_sub(..).ok_or_else(math_error!()) in a type of range lo..hi.
checked_sub(a, b, lo, hi) == cast(a - b, lo, hi)

\* checked_mul(..).ok_or_else(math_error!()) in a type of range lo..hi.
checked_mul(a, b, lo, hi) == cast(a * b, lo, hi)

\* checked_div(..).ok_or_else(math_error!()) of unsigned values: truncating,
\* an error when the divisor is 0.
checked_div(a, b) == IF b = 0 THEN Err(MathError) ELSE Ok(a \div b)

\* ------------------------------------------------------------ spot records

Long == "Long"
Short == "Short"
Deposit == "Deposit"
Borrow == "Borrow"

Directions == {Long, Short}
BalanceTypes == {Deposit, Borrow}

\* The range of SpotPosition.open_bids / open_asks: unsigned token amounts.
OpenMin == 0
OpenMax == MaxU64

\* Balances are token amounts scaled by this precision.
SPOT_BALANCE_PRECISION == 10

\* A zeroed SpotPosition (SpotPosition::default) for a market index.
NewSpotPosition(index) ==
    [market_index |-> index, balance_type |-> Deposit, balance |-> 0,
     open_bids |-> 0, open_asks |-> 0, cumulative_deposits |-> 0]

\* The signed value of a position's balance: positive for a deposit.
SignedBalance(p) == IF p.balance_type = Deposit THEN p.balance ELSE -p.balance

VARIABLES
    spot_market,    \* the SpotMarket: [deposit_balance, borrow_balance]
    positions,      \* account -> SpotPosition
    last,           \* the last call: its operation, arguments and result
    pre,            \* spot_market and positions as they were before the last call
    net_flow,       \* account -> deposits minus borrows of the successful updates
    calls,          \* number of ledger calls made
    amm,            \* the PerpMarket's AMM
    jit,            \* the last JIT sizing call: its arguments and result
    margin          \* the last margin validation: its arguments and result

vars == <<spot_market, positions, last, pre, net_flow, calls, amm, jit, margin>>
spot_vars == <<spot_market, positions, last, pre, net_flow, calls>>
amm_vars == <<amm, jit>>
margin_vars == <<margin>>

\* ------------------------------------------------------------ exposure tracker

\* increase_spot_open_bids_and_asks: the position as the call leaves it.
increase_spot_open_bids_and_asks(spot_position, direction, base_asset_amount_unfilled) ==
    LET amount == cast(base_asset_amount_unfilled, OpenMin, OpenMax) IN
    IF ~amount.ok THEN [ok |-> FALSE, err |-> MathError, position |-> spot_position]
    ELSE IF direction = Long
    THEN LET r == checked_add(spot_position.open_bids, amount.val, OpenMin, OpenMax) IN
         IF r.ok
         THEN [ok |-> TRUE, err |-> NoError,
               position |-> [spot_position EXCEPT !.open_bids = r.val]]
         ELSE [ok |-> FALSE, err |-> MathError, position |-> spot_position]
    ELSE LET r == checked_sub(spot_position.open_asks, amount.val, OpenMin, OpenMax) IN
         IF r.ok
         THEN [ok |-> TRUE, err |-> NoError,
               position |-> [spot_position EXCEPT !.open_asks = r.val]]
         ELSE [ok |-> FALSE, err |-> MathError, position |-> spot_position]

\* decrease_spot_open_bids_and_asks with the arms of the increase: the body
\* copied, its checked_add and checked_sub not swapped.
decrease_spot_open_bids_and_asks_not_swapped(spot_position, direction, base_asset_amount_unfilled) ==
    increase_spot_open_bids_and_asks(spot_position, direction,
                                     base_asset_amount_unfilled)

\* decrease_spot_open_bids_and_asks: the position as the call leaves it.
decrease_spot_open_bids_and_asks(spot_position, direction, base_asset_amount_unfilled) ==
    LET amount == cast(base_asset_amount_unfilled, OpenMin, OpenMax) IN
    IF ~amount.ok THEN [ok |-> FALSE, err |-> MathError, position |-> spot_position]
    ELSE IF direction = Long
    THEN LET r == checked_sub(spot_position.open_bids, amount.val, OpenMin, OpenMax) IN
         IF r.ok
         THEN [ok |-> TRUE, err |-> NoError,
               position |-> [spot_position EXCEPT !.open_bids = r.val]]
         ELSE [ok |-> FALSE, err |-> MathError, position |-> spot_position]
    ELSE LET r == checked_add(spot_position.open_asks, amount.val, OpenMin, OpenMax) IN
         IF r.ok
         THEN [ok |-> TRUE, err |-> NoError,
               position |-> [spot_position EXCEPT !.open_asks = r.val]]
         ELSE [ok |-> FALSE, err |-> MathError, position |-> spot_position]

\* ------------------------------------------------------------ balance ledger

\* update_spot_balances, the market-level balance update: it moves the
\* position's scaled balance by token_amount in update_direction, switching
\* its balance type when the balance crosses zero, and the market's pooled
\* totals with it. It fails, changing nothing, when a scaled amount
\* overflows or when a borrow leaves the market with more borrowed than
\* deposited. The scaling is exact, so force_round_up has nothing to round.
update_spot_balances(token_amount, update_direction, market, position, force_round_up) ==
    LET unchanged == [ok |-> FALSE, err |-> MathError,
                      market |-> market, position |-> position]
        delta == checked_mul(token_amount, SPOT_BALANCE_PRECISION, 0, MaxU128)
        pool(t) == IF t = Deposit THEN "deposit_balance" ELSE "borrow_balance"
    IN
    IF ~delta.ok THEN unchanged
    ELSE
      LET same == position.balance_type = update_direction
          reduce == Min(position.balance, delta.val)
          rest == delta.val - reduce
          \* the position and the market once the existing balance is reduced
          p1 == IF same THEN position
                ELSE [position EXCEPT !.balance = @ - reduce]
          m1 == IF same THEN market
                ELSE [market EXCEPT ![pool(position.balance_type)] = @ - reduce]
          grow == IF same THEN delta.val ELSE rest
          p2 == IF grow > 0
                THEN [p1 EXCEPT !.balance_type = update_direction,
                                !.balance = @ + grow]
                ELSE p1
          m2 == IF grow > 0
                THEN [m1 EXCEPT ![pool(update_direction)] = @ + grow]
                ELSE m1
      IN
      IF ~same /\ market[pool(position.balance_type)] < reduce THEN unchanged
      ELSE IF p2.balance > MaxU128 \/ m2.deposit_balance > MaxU128
              \/ m2.borrow_balance > MaxU128 THEN unchanged
      ELSE IF update_direction = Borrow /\ m2.deposit_balance < m2.borrow_balance
      THEN [unchanged EXCEPT !.err = "SpotMarketInsufficientDeposits"]
      ELSE [ok |-> TRUE, err |-> NoError, market |-> m2, position |-> p2]

\* update_cumulative_deposits with `as` casts and wrapping arithmetic in
\* place of the checked cast, increment and decrement.
update_cumulative_deposits_wrapping(cumulative_deposits, update_direction, token_amount) ==
    LET sum == IF update_direction = Deposit
               THEN cumulative_deposits + token_amount
               ELSE cumulative_deposits - token_amount
    IN Ok(((sum - MinI64) % (MaxI64 - MinI64 + 1)) + MinI64)

\* update_cumulative_deposits with a checked_increment! in both arms.
update_cumulative_deposits_always_increments(cumulative_deposits, update_direction, token_amount) ==
    LET amount == cast(token_amount, MinI64, MaxI64) IN
    IF ~amount.ok THEN Err(MathError)
    ELSE checked_add(cumulative_deposits, amount.val, MinI64, MaxI64)

\* The match on update_direction: checked_increment! for a Deposit,
\* checked_decrement! for a Borrow, of cumulative_deposits by the cast amount.
update_cumulative_deposits(cumulative_deposits, update_direction, token_amount) ==
    LET amount == cast(token_amount, MinI64, MaxI64) IN
    IF ~amount.ok THEN Err(MathError)
    ELSE IF update_direction = Deposit
    THEN checked_add(cumulative_deposits, amount.val, MinI64, MaxI64)
    ELSE checked_sub(cumulative_deposits, amount.val, MinI64, MaxI64)

\* update_spot_position_balance: the market and the position as the call
\* leaves them. Nothing undoes the balance update when the cumulative
\* deposits cannot be updated.
update_spot_position_balance(token_amount, update_direction, market, position, force_round_up) ==
    LET b == update_spot_balances(token_amount, update_direction, market,
                                  position, force_round_up)
    IN
    IF ~b.ok THEN b
    ELSE LET c == update_cumulative_deposits(b.position.cumulative_deposits,
                                             update_direction, token_amount)
         IN
         IF ~c.ok
         THEN [ok |-> FALSE, err |-> c.err, market |-> b.market, position |-> b.position]
         ELSE [ok |-> TRUE, err |-> NoError, market |-> b.market,
               position |-> [b.position EXCEPT !.cumulative_deposits = c.val]]

\* transfer_spot_position_deposit without its validate!.
transfer_market_indexes_unchecked(from_spot_position, to_spot_position) == TRUE

\* The validate! of transfer_spot_position_deposit.
transfer_market_indexes_equal(from_spot_position, to_spot_position) ==
    from_spot_position.market_index = to_spot_position.market_index

\* transfer_spot_position_deposit once the borrow from from_spot_position
\* has returned b: the deposit to to_spot_position, made when b is a success.
transfer_deposit_after_borrow(token_amount, to_spot_position, b, d) ==
    IF ~b.ok
    THEN [ok |-> FALSE, err |-> b.err, market |-> b.market,
          from |-> b.position, to |-> to_spot_position,
          first_ok |-> FALSE, second_ok |-> FALSE]
    ELSE [ok |-> d.ok, err |-> d.err, market |-> d.market,
          from |-> b.position, to |-> d.position,
          first_ok |-> TRUE, second_ok |-> d.ok]

\* transfer_spot_position_deposit with a Borrow as its second update too.
transfer_spot_position_deposit_borrows_twice(token_amount, market, from_spot_position, to_spot_position) ==
    IF ~transfer_market_indexes_equal(from_spot_position, to_spot_position)
    THEN [ok |-> FALSE, err |-> DefaultError, market |-> market,
          from |-> from_spot_position, to |-> to_spot_position,
          first_ok |-> FALSE, second_ok |-> FALSE]
    ELSE
      LET b == update_spot_position_balance(token_amount, Borrow, market,
                                            from_spot_position, FALSE)
      IN transfer_deposit_after_borrow(token_amount, to_spot_position, b,
             update_spot_position_balance(token_amount, Borrow, b.market,
                                          to_spot_position, FALSE))

\* transfer_spot_position_deposit: the market and both positions as the call
\* leaves them; first_ok and second_ok say which of the two updates succeeded.
transfer_spot_position_deposit(token_amount, market, from_spot_position, to_spot_position) ==
    IF ~transfer_market_indexes_equal(from_spot_position, to_spot_position)
    THEN [ok |-> FALSE, err |-> DefaultError, market |-> market,
          from |-> from_spot_position, to |-> to_spot_position,
          first_ok |-> FALSE, second_ok |-> FALSE]
    ELSE
      LET b == update_spot_position_balance(token_amount, Borrow, market,
                                            from_spot_position, FALSE)
      IN transfer_deposit_after_borrow(token_amount, to_spot_position, b,
             update_spot_position_balance(token_amount, Deposit, b.market,
                                          to_spot_position, FALSE))

\* ------------------------------------------------------------ AMM JIT sizer

\* The scale of AMM reserves and of the imbalance ratio.
AMM_RESERVE_PRECISION == 1000

\* Option<i128>: None, or Some(price).
None == [some |-> FALSE, val |-> 0]
Some(v) == [some |-> TRUE, val |-> v]

\* cast_to_u128 of an i128: an error for a negative value.
cast_to_u128(v) == cast(v, 0, MaxU128)

\* calculate_market_open_bids_asks: the most the AMM can still buy (max_bids,
\* the reserve above its minimum) and sell (max_asks, negative: the reserve
\* below its maximum).
calculate_market_open_bids_asks(a) ==
    LET max_asks == IF a.base_asset_reserve < a.max_base_asset_reserve
                    THEN -(a.max_base_asset_reserve - a.base_asset_reserve)
                    ELSE 0
        max_bids == IF a.base_asset_reserve > a.min_base_asset_reserve
                    THEN a.base_asset_reserve - a.min_base_asset_reserve
                    ELSE 0
    IN IF max_bids > MaxI128 \/ -max_asks > MaxI128
       THEN [ok |-> FALSE, err |-> MathError, max_bids |-> 0, max_asks |-> 0]
       ELSE [ok |-> TRUE, err |-> NoError, max_bids |-> max_bids, max_asks |-> max_asks]

\* standardize_base_asset_amount: the amount rounded down to a multiple of
\* the step size; an error for a step size of 0.
standardize_base_asset_amount(base_asset_amount, step_size) ==
    IF step_size = 0 THEN Err(MathError)
    ELSE Ok(base_asset_amount - (base_asset_amount % step_size))

\* The wash trade check without its else arm: the cap is left as it is when
\* there is no oracle price.
wash_trade_max_jit_amount_without_else(max_jit_amount, auction_price, valid_oracle_price, taker_direction) ==
    IF valid_oracle_price.some
    THEN LET oracle_price == cast_to_u128(valid_oracle_price.val) IN
         IF ~oracle_price.ok THEN Err(MathError)
         ELSE IF taker_direction = Long /\ auction_price < oracle_price.val
         THEN checked_div(max_jit_amount, 4)
         ELSE IF taker_direction = Short /\ auction_price > oracle_price.val
         THEN checked_div(max_jit_amount, 4)
         ELSE Ok(max_jit_amount)
    ELSE Ok(max_jit_amount)

\* The wash trade check with its comparisons the wrong way round: the cap is
\* quartered for a Long above the oracle price and a Short below it.
wash_trade_max_jit_amount_reversed(max_jit_amount, auction_price, valid_oracle_price, taker_direction) ==
    IF valid_oracle_price.some
    THEN LET oracle_price == cast_to_u128(valid_oracle_price.val) IN
         IF ~oracle_price.ok THEN Err(MathError)
         ELSE IF taker_direction = Long /\ auction_price > oracle_price.val
         THEN checked_div(max_jit_amount, 4)
         ELSE IF taker_direction = Short /\ auction_price < oracle_price.val
         THEN checked_div(max_jit_amount, 4)
         ELSE Ok(max_jit_amount)
    ELSE Ok(0)

\* The wash trade check: the cap on the JIT amount once the auction price is
\* compared with the oracle price.
wash_trade_max_jit_amount(max_jit_amount, auction_price, valid_oracle_price, taker_direction) ==
    IF valid_oracle_price.some
    THEN LET oracle_price == cast_to_u128(valid_oracle_price.val) IN
         IF ~oracle_price.ok THEN Err(MathError)
         ELSE IF taker_direction = Long /\ auction_price < oracle_price.val
         THEN checked_div(max_jit_amount, 4)
         ELSE IF taker_direction = Short /\ auction_price > oracle_price.val
         THEN checked_div(max_jit_amount, 4)
         ELSE Ok(max_jit_amount)
    ELSE Ok(0)

\* amm_is_imbalanced: whether the larger of the open bids and asks is at
\* least three times the smaller.
amm_is_imbalanced(a) ==
    LET open == calculate_market_open_bids_asks(a) IN
    IF ~open.ok THEN Err(MathError)
    ELSE
      LET max_bids == Abs(open.max_bids)
          max_asks == Abs(open.max_asks)
          numerator == Max(max_bids, max_asks)
          denominator == Min(max_bids, max_asks)
          scaled == checked_mul(numerator, AMM_RESERVE_PRECISION, 0, MaxU128)
      IN
      IF ~scaled.ok THEN Err(MathError)
      ELSE LET ratio == checked_div(scaled.val, denominator)
               imbalanced_bound == checked_mul(3, AMM_RESERVE_PRECISION, 0, MaxU128)
           IN IF ~ratio.ok \/ ~imbalanced_bound.ok THEN Err(MathError)
              ELSE Ok(ratio.val >= imbalanced_bound.val)

\* The amount before clamping with its arms exchanged: a quarter when the
\* AMM is imbalanced.
imbalance_jit_base_asset_amount_exchanged(is_imbalanced, maker_base_asset_amount) ==
    IF ~is_imbalanced THEN Ok(maker_base_asset_amount)
    ELSE checked_div(maker_base_asset_amount, 4)

\* The amount before clamping: all of the maker's when the AMM is
\* imbalanced, a quarter of it otherwise.
imbalance_jit_base_asset_amount(is_imbalanced, maker_base_asset_amount) ==
    IF is_imbalanced THEN Ok(maker_base_asset_amount)
    ELSE checked_div(maker_base_asset_amount, 4)

\* calculate_clampped_jit_base_asset_amount without the bound by the AMM's
\* net position: the intensity alone is applied.
calculate_clampped_jit_base_asset_amount_unbounded(a, jit_base_asset_amount) ==
    LET product == checked_mul(jit_base_asset_amount, a.amm_jit_intensity, 0, MaxU128) IN
    IF ~product.ok THEN Err(MathError)
    ELSE IF Abs(a.net_base_asset_amount) > MaxU64 THEN Err(MathError)
    ELSE cast(product.val \div 100, 0, MaxU64)

\* calculate_clampped_jit_base_asset_amount: the amount scaled by the
\* intensity (a percentage) and bounded by the AMM's net position.
calculate_clampped_jit_base_asset_amount(a, jit_base_asset_amount) ==
    LET wide == cast(jit_base_asset_amount, 0, MaxU128) IN
    IF ~wide.ok THEN Err(MathError)
    ELSE
      LET product == checked_mul(wide.val, a.amm_jit_intensity, 0, MaxU128) IN
      IF ~product.ok THEN Err(MathError)
      ELSE
        LET quotient == checked_div(product.val, 100)
            scaled == cast(quotient.val, 0, MaxU64)
            max_amm_base_asset_amount ==
                cast(Abs(a.net_base_asset_amount), 0, MaxU64)
        IN
        IF ~quotient.ok \/ ~scaled.ok THEN Err(MathError)
        ELSE IF ~max_amm_base_asset_amount.ok THEN Err(MathError)
        ELSE Ok(Min(scaled.val, max_amm_base_asset_amount.val))

\* The amount not bounded by max_jit_amount.
not_bound_by_max_jit_amount(jit_base_asset_amount, max_jit_amount) ==
    jit_base_asset_amount

\* jit_base_asset_amount.min(max_jit_amount)
bound_by_max_jit_amount(jit_base_asset_amount, max_jit_amount) ==
    Min(jit_base_asset_amount, max_jit_amount)

\* calculate_jit_base_asset_amount
calculate_jit_base_asset_amount(a, maker_base_asset_amount, auction_price, valid_oracle_price, taker_direction) ==
    LET half == checked_div(maker_base_asset_amount, 2) IN
    IF ~half.ok THEN Err(MathError)
    ELSE
      LET max_jit_amount == wash_trade_max_jit_amount(half.val, auction_price,
                                valid_oracle_price, taker_direction)
      IN
      IF ~max_jit_amount.ok THEN Err(MathError)
      ELSE IF max_jit_amount.val = 0 THEN Ok(0)
      ELSE
        LET imbalanced == amm_is_imbalanced(a) IN
        IF ~imbalanced.ok THEN Err(MathError)
        ELSE
          LET base == imbalance_jit_base_asset_amount(imbalanced.val,
                                                      maker_base_asset_amount)
          IN
          IF ~base.ok THEN Err(MathError)
          ELSE IF base.val = 0 THEN Ok(0)
          ELSE
            LET clamped == calculate_clampped_jit_base_asset_amount(a, base.val) IN
            IF ~clamped.ok THEN Err(MathError)
            ELSE standardize_base_asset_amount(
                     bound_by_max_jit_amount(clamped.val, max_jit_amount.val),
                     a.order_step_size)

\* ------------------------------------------------------------ margin validators

InvalidMarginRatio == "InvalidMarginRatio"
InvalidSpotMarketInitialization == "InvalidSpotMarketInitialization"

\* A ClearingHouseResult<()>: a success carries no value.
Valid == [ok |-> TRUE, err |-> NoError]
Invalid(e) == [ok |-> FALSE, err |-> e]

\* The full weight of the quote asset and the ceiling of imf_factor. The
\* validators only compare their arguments with these.
SPOT_WEIGHT_PRECISION == 10000
SPOT_IMF_PRECISION == 1000000

\* The bounds of a margin ratio and the units of liquidation fee in one unit
\* of margin ratio. The validator only compares its arguments with these.
MINIMUM_MARGIN_RATIO == 200
MAXIMUM_MARGIN_RATIO == 10000
LIQUIDATION_FEE_TO_MARGIN_PRECISION_RATIO == 100

\* (MINIMUM_MARGIN_RATIO..=MAXIMUM_MARGIN_RATIO).contains(&ratio)
margin_ratio_in_bounds(ratio) ==
    MINIMUM_MARGIN_RATIO <= ratio /\ ratio <= MAXIMUM_MARGIN_RATIO

\* validate_margin with `>=` in place of `>` where the maintenance ratio
\* meets the liquidation fee.
validate_margin_fee_not_strict(margin_ratio_initial, margin_ratio_maintenance, liquidation_fee, max_spread) ==
    IF ~margin_ratio_in_bounds(margin_ratio_initial)
    THEN Invalid(InvalidMarginRatio)
    ELSE IF margin_ratio_initial < margin_ratio_maintenance
    THEN Invalid(InvalidMarginRatio)
    ELSE IF ~margin_ratio_in_bounds(margin_ratio_maintenance)
    THEN Invalid(InvalidMarginRatio)
    ELSE IF ~(margin_ratio_maintenance * LIQUIDATION_FEE_TO_MARGIN_PRECISION_RATIO
                >= liquidation_fee)
    THEN Invalid(InvalidMarginRatio)
    ELSE IF ~(margin_ratio_initial * 100 > max_spread)
    THEN Invalid(InvalidMarginRatio)
    ELSE Valid

\* validate_margin: the three early returns, then the two validate!. The
\* products are taken in u128, which holds a u32 times either factor.
validate_margin(margin_ratio_initial, margin_ratio_maintenance, liquidation_fee, max_spread) ==
    IF ~margin_ratio_in_bounds(margin_ratio_initial)
    THEN Invalid(InvalidMarginRatio)
    ELSE IF margin_ratio_initial < margin_ratio_maintenance
    THEN Invalid(InvalidMarginRatio)
    ELSE IF ~margin_ratio_in_bounds(margin_ratio_maintenance)
    THEN Invalid(InvalidMarginRatio)
    ELSE IF ~(margin_ratio_maintenance * LIQUIDATION_FEE_TO_MARGIN_PRECISION_RATIO
                > liquidation_fee)
    THEN Invalid(InvalidMarginRatio)
    ELSE IF ~(margin_ratio_initial * 100 > max_spread)
    THEN Invalid(InvalidMarginRatio)
    ELSE Valid

\* validate_margin_weights with `>=` in place of `>` where the liability
\* weights of a market other than the quote market meet the full weight.
validate_margin_weights_liability_not_strict(spot_market_index, initial_asset_weight, maintenance_asset_weight, initial_liability_weight, maintenance_liability_weight, imf_factor) ==
    IF spot_market_index = 0
       /\ ~(/\ initial_asset_weight = SPOT_WEIGHT_PRECISION
            /\ maintenance_asset_weight = SPOT_WEIGHT_PRECISION
            /\ initial_liability_weight = SPOT_WEIGHT_PRECISION
            /\ maintenance_liability_weight = SPOT_WEIGHT_PRECISION)
    THEN Invalid(InvalidSpotMarketInitialization)
    ELSE IF spot_market_index # 0
            /\ ~(/\ initial_asset_weight < SPOT_WEIGHT_PRECISION
                 /\ initial_asset_weight <= maintenance_asset_weight
                 /\ maintenance_asset_weight > 0
                 /\ maintenance_asset_weight < SPOT_WEIGHT_PRECISION
                 /\ initial_liability_weight >= SPOT_WEIGHT_PRECISION
                 /\ initial_liability_weight >= maintenance_liability_weight
                 /\ maintenance_liability_weight >= SPOT_WEIGHT_PRECISION)
    THEN Invalid(InvalidSpotMarketInitialization)
    ELSE IF ~(imf_factor < SPOT_IMF_PRECISION)
    THEN Invalid(InvalidSpotMarketInitialization)
    ELSE Valid

\* validate_margin_weights: each validate! returns its error when its
\* condition is false; the quote market (index 0) takes the first arm.
validate_margin_weights(spot_market_index, initial_asset_weight, maintenance_asset_weight, initial_liability_weight, maintenance_liability_weight, imf_factor) ==
    IF spot_market_index = 0
    THEN IF ~(initial_asset_weight = SPOT_WEIGHT_PRECISION)
         THEN Invalid(InvalidSpotMarketInitialization)
         ELSE IF ~(maintenance_asset_weight = SPOT_WEIGHT_PRECISION)
         THEN Invalid(InvalidSpotMarketInitialization)
         ELSE IF ~(initial_liability_weight = SPOT_WEIGHT_PRECISION)
         THEN Invalid(InvalidSpotMarketInitialization)
         ELSE IF ~(maintenance_liability_weight = SPOT_WEIGHT_PRECISION)
         THEN Invalid(InvalidSpotMarketInitialization)
         ELSE IF ~(imf_factor < SPOT_IMF_PRECISION)
         THEN Invalid(InvalidSpotMarketInitialization)
         ELSE Valid
    ELSE IF ~(initial_asset_weight < SPOT_WEIGHT_PRECISION)
         THEN Invalid(InvalidSpotMarketInitialization)
         ELSE IF ~(/\ initial_asset_weight <= maintenance_asset_weight
                   /\ maintenance_asset_weight > 0
                   /\ maintenance_asset_weight < SPOT_WEIGHT_PRECISION)
         THEN Invalid(InvalidSpotMarketInitialization)
         ELSE IF ~(initial_liability_weight > SPOT_WEIGHT_PRECISION)
         THEN Invalid(InvalidSpotMarketInitialization)
         ELSE IF ~(/\ initial_liability_weight >= maintenance_liability_weight
                   /\ maintenance_liability_weight > SPOT_WEIGHT_PRECISION)
         THEN Invalid(InvalidSpotMarketInitialization)
         ELSE IF ~(imf_factor < SPOT_IMF_PRECISION)
         THEN Invalid(InvalidSpotMarketInitialization)
         ELSE Valid

\* ------------------------------------------------------------ the spot machine

Accounts == {"a", "b"}

\* Most ledger calls in one behaviour.
MaxCalls == 4

\* The amounts the calls are made with: nothing, the tests' 100 and half of
\* it, and the smallest amount the signed cumulative_deposits cannot hold.
TokenAmounts == {0, 50, 100, MaxI64 + 1}
UnfilledAmounts == {0, 100, MaxU64}

NoCall ==
    [op |-> "none", account |-> "a", to |-> "a", direction |-> "none",
     amount |-> 0, ok |-> TRUE, err |-> NoError,
     first_ok |-> FALSE, second_ok |-> FALSE]

\* Both accounts hold a zeroed position; the market is empty or holds the
\* deposits of others (the 101 tokens of the borrow test).
InitSpot ==
    /\ \E d \in {0, 101} :
          spot_market = [deposit_balance |-> d * SPOT_BALANCE_PRECISION,
                         borrow_balance |-> 0]
    /\ \E i \in {0, 1} :
          positions = [x \in Accounts |->
                         IF x = "a" THEN NewSpotPosition(0) ELSE NewSpotPosition(i)]
    /\ last = NoCall
    /\ pre = [market |-> spot_market, positions |-> positions]
    /\ net_flow = [x \in Accounts |-> 0]
    /\ calls = 0

Snapshot == [market |-> spot_market, positions |-> positions]

IncreaseSpotOpenBidsAndAsks ==
    \E x \in Accounts, d \in Directions, a \in UnfilledAmounts :
        LET r == increase_spot_open_bids_and_asks(positions[x], d, a) IN
        /\ positions' = [positions EXCEPT ![x] = r.position]
        /\ last' = [NoCall EXCEPT !.op = "increase", !.account = x, !.direction = d,
                                  !.amount = a, !.ok = r.ok, !.err = r.err]
        /\ pre' = Snapshot
        /\ UNCHANGED <<spot_market, net_flow, calls, amm_vars, margin_vars>>

DecreaseSpotOpenBidsAndAsks ==
    \E x \in Accounts, d \in Directions, a \in UnfilledAmounts :
        LET r == decrease_spot_open_bids_and_asks(positions[x], d, a) IN
        /\ positions' = [positions EXCEPT ![x] = r.position]
        /\ last' = [NoCall EXCEPT !.op = "decrease", !.account = x, !.direction = d,
                                  !.amount = a, !.ok = r.ok, !.err = r.err]
        /\ pre' = Snapshot
        /\ UNCHANGED <<spot_market, net_flow, calls, amm_vars, margin_vars>>

\* The signed token amount a successful update adds to cumulative_deposits.
Flow(direction, amount) == IF direction = Deposit THEN amount ELSE -amount

UpdateSpotPositionBalance ==
    \E x \in Accounts, d \in BalanceTypes, a \in TokenAmounts, up \in BOOLEAN :
        LET r == update_spot_position_balance(a, d, spot_market, positions[x], up) IN
        /\ calls < MaxCalls
        /\ calls' = calls + 1
        /\ spot_market' = r.market
        /\ positions' = [positions EXCEPT ![x] = r.position]
        /\ last' = [NoCall EXCEPT !.op = "update", !.account = x, !.direction = d,
                                  !.amount = a, !.ok = r.ok, !.err = r.err]
        /\ pre' = Snapshot
        /\ net_flow' = IF r.ok THEN [net_flow EXCEPT ![x] = @ + Flow(d, a)]
                       ELSE net_flow
        /\ UNCHANGED <<amm_vars, margin_vars>>

TransferSpotPositionDeposit ==
    \E x \in Accounts, y \in Accounts, a \in TokenAmounts :
        LET r == transfer_spot_position_deposit(a, spot_market, positions[x],
                                                positions[y])
        IN
        /\ x # y
        /\ calls < MaxCalls
        /\ calls' = calls + 1
        /\ spot_market' = r.market
        /\ positions' = [positions EXCEPT ![x] = r.from, ![y] = r.to]
        /\ last' = [NoCall EXCEPT !.op = "transfer", !.account = x, !.to = y,
                                  !.direction = "none", !.amount = a,
                                  !.ok = r.ok, !.err = r.err,
                                  !.first_ok = r.first_ok, !.second_ok = r.second_ok]
        /\ pre' = Snapshot
        /\ net_flow' = [z \in Accounts |->
                          IF z = x /\ r.first_ok THEN net_flow[z] + Flow(Borrow, a)
                          ELSE IF z = y /\ r.second_ok THEN net_flow[z] + Flow(Deposit, a)
                          ELSE net_flow[z]]
        /\ UNCHANGED <<amm_vars, margin_vars>>

\* ------------------------------------------------------------ the JIT machine

NetBaseAssetAmounts == {-100, 0, 100, MaxU64 + 1}
Intensities == {0, 50, 100}
MinBaseAssetReserve == 50
MaxBaseAssetReserves == {90, 100}
BaseAssetReserves == {50, 62, 70, 75, 80, 88, 90, 100}
OrderStepSizes == {0, 1, 10}
MakerAmounts == {0, 3, 7, 100, MaxU64}
AuctionPrices == {50, 100, 200}
OraclePrices == {None, Some(-1), Some(100), Some(200), Some(300)}

\* The AMMs: the reserve lies between its bounds.
AMMs ==
    {[net_base_asset_amount |-> n, amm_jit_intensity |-> i,
      base_asset_reserve |-> b, min_base_asset_reserve |-> MinBaseAssetReserve,
      max_base_asset_reserve |-> m, order_step_size |-> s] :
        n \in NetBaseAssetAmounts, i \in Intensities,
        b \in BaseAssetReserves, m \in MaxBaseAssetReserves, s \in OrderStepSizes}

ValidAMM(a) ==
    /\ a.min_base_asset_reserve <= a.base_asset_reserve
    /\ a.base_asset_reserve <= a.max_base_asset_reserve

\* AMM::default_test with the reserves of the tests.
DefaultAMM ==
    [net_base_asset_amount |-> 0, amm_jit_intensity |-> 0,
     base_asset_reserve |-> 75, min_base_asset_reserve |-> MinBaseAssetReserve,
     max_base_asset_reserve |-> 100, order_step_size |-> 1]

NoJitCall ==
    [op |-> "none", amount |-> 0, auction_price |-> 0, oracle_price |-> None,
     direction |-> Long, ok |-> TRUE, val |-> 0]

InitAmmIdle ==
    /\ amm = DefaultAMM
    /\ jit = NoJitCall

InitSpotIdle ==
    /\ spot_market = [deposit_balance |-> 0, borrow_balance |-> 0]
    /\ positions = [x \in Accounts |-> NewSpotPosition(0)]
    /\ last = NoCall
    /\ pre = [market |-> spot_market, positions |-> positions]
    /\ net_flow = [x \in Accounts |-> 0]
    /\ calls = 0

InitAmm ==
    /\ amm \in {a \in AMMs : ValidAMM(a)}
    /\ jit = NoJitCall

CalculateJitBaseAssetAmount ==
    \E m \in MakerAmounts, p \in AuctionPrices, o \in OraclePrices, d \in Directions :
        LET r == calculate_jit_base_asset_amount(amm, m, p, o, d) IN
        /\ jit.op = "none"
        /\ jit' = [op |-> "jit", amount |-> m, auction_price |-> p,
                   oracle_price |-> o, direction |-> d, ok |-> r.ok, val |-> r.val]
        /\ UNCHANGED <<amm, spot_vars, margin_vars>>

CalculateClamppedJitBaseAssetAmount ==
    \E m \in MakerAmounts :
        LET r == calculate_clampped_jit_base_asset_amount(amm, m) IN
        /\ jit.op = "none"
        /\ jit' = [NoJitCall EXCEPT !.op = "clamp", !.amount = m,
                                    !.ok = r.ok, !.val = r.val]
        /\ UNCHANGED <<amm, spot_vars, margin_vars>>

\* The caller takes the result; the sizer is a pure function and keeps nothing.
ReturnJitBaseAssetAmount ==
    /\ jit.op # "none"
    /\ jit' = NoJitCall
    /\ UNCHANGED <<amm, spot_vars, margin_vars>>

\* ------------------------------------------------------------ the margin machine

\* The quote market and two others.
SpotMarketIndexes == {0, 1, 2}

\* Weights at and on both sides of nothing and of the full weight.
Weights ==
    {0, 1, SPOT_WEIGHT_PRECISION - 1, SPOT_WEIGHT_PRECISION,
     SPOT_WEIGHT_PRECISION + 1, SPOT_WEIGHT_PRECISION + 2}
ImfFactors == {0, SPOT_IMF_PRECISION - 1, SPOT_IMF_PRECISION}

\* Ratios at and on both sides of the bounds; fees and spreads at and on
\* both sides of what the ratios at the bounds allow.
MarginRatios ==
    {0, MINIMUM_MARGIN_RATIO - 1, MINIMUM_MARGIN_RATIO, MINIMUM_MARGIN_RATIO + 1,
     MAXIMUM_MARGIN_RATIO, MAXIMUM_MARGIN_RATIO + 1}
LiquidationFees ==
    {0,
     MINIMUM_MARGIN_RATIO * LIQUIDATION_FEE_TO_MARGIN_PRECISION_RATIO - 1,
     MINIMUM_MARGIN_RATIO * LIQUIDATION_FEE_TO_MARGIN_PRECISION_RATIO,
     (MINIMUM_MARGIN_RATIO + 1) * LIQUIDATION_FEE_TO_MARGIN_PRECISION_RATIO,
     MAXIMUM_MARGIN_RATIO * LIQUIDATION_FEE_TO_MARGIN_PRECISION_RATIO - 1,
     MAXIMUM_MARGIN_RATIO * LIQUIDATION_FEE_TO_MARGIN_PRECISION_RATIO}
MaxSpreads ==
    {0, MINIMUM_MARGIN_RATIO * 100 - 1, MINIMUM_MARGIN_RATIO * 100,
     MAXIMUM_MARGIN_RATIO * 100 - 1, MAXIMUM_MARGIN_RATIO * 100}

NoMarginCall ==
    [op |-> "none", ok |-> TRUE, err |-> NoError,
     margin_ratio_initial |-> 0, margin_ratio_maintenance |-> 0,
     liquidation_fee |-> 0, max_spread |-> 0,
     spot_market_index |-> 0, initial_asset_weight |-> 0,
     maintenance_asset_weight |-> 0, initial_liability_weight |-> 0,
     maintenance_liability_weight |-> 0, imf_factor |-> 0]

InitMarginIdle == margin = NoMarginCall

ValidateMargin ==
    \E i \in MarginRatios, m \in MarginRatios,
       f \in LiquidationFees, s \in MaxSpreads :
        LET r == validate_margin(i, m, f, s) IN
        /\ margin.op = "none"
        /\ margin' = [NoMarginCall EXCEPT
                         !.op = "validate_margin",
                         !.ok = r.ok, !.err = r.err,
                         !.margin_ratio_initial = i,
                         !.margin_ratio_maintenance = m,
                         !.liquidation_fee = f,
                         !.max_spread = s]
        /\ UNCHANGED <<spot_vars, amm_vars>>

ValidateMarginWeights ==
    \E i \in SpotMarketIndexes, iaw \in Weights, maw \in Weights,
       ilw \in Weights, mlw \in Weights, f \in ImfFactors :
        LET r == validate_margin_weights(i, iaw, maw, ilw, mlw, f) IN
        /\ margin.op = "none"
        /\ margin' = [NoMarginCall EXCEPT
                         !.op = "validate_margin_weights",
                         !.ok = r.ok, !.err = r.err,
                         !.spot_market_index = i,
                         !.initial_asset_weight = iaw,
                         !.maintenance_asset_weight = maw,
                         !.initial_liability_weight = ilw,
                         !.maintenance_liability_weight = mlw,
                         !.imf_factor = f]
        /\ UNCHANGED <<spot_vars, amm_vars>>

\* The administrator takes the verdict; the validators keep nothing.
ReturnMarginResult ==
    /\ margin.op # "none"
    /\ margin' = NoMarginCall
    /\ UNCHANGED <<spot_vars, amm_vars>>

\* ------------------------------------------------------------ specifications

\* The exposure tracker alone.
InitExposure == InitSpotIdle /\ InitAmmIdle /\ InitMarginIdle
NextExposure == IncreaseSpotOpenBidsAndAsks \/ DecreaseSpotOpenBidsAndAsks
SpecExposure == InitExposure /\ [][NextExposure]_vars

\* The balance ledger and the transfer orchestrator.
InitLedger == InitSpot /\ InitAmmIdle /\ InitMarginIdle
NextLedger == UpdateSpotPositionBalance \/ TransferSpotPositionDeposit
SpecLedger == InitLedger /\ [][NextLedger]_vars

\* The JIT sizer over every AMM.
InitJit == InitSpotIdle /\ InitAmm /\ InitMarginIdle
NextJit ==
    \/ CalculateJitBaseAssetAmount
    \/ CalculateClamppedJitBaseAssetAmount
    \/ ReturnJitBaseAssetAmount
SpecJit == InitJit /\ [][NextJit]_vars

\* The margin validators over every proposed parameter set.
InitMargin == InitSpotIdle /\ InitAmmIdle /\ InitMarginIdle
NextMargin ==
    \/ ValidateMargin
    \/ ValidateMarginWeights
    \/ ReturnMarginResult
SpecMargin == InitMargin /\ [][NextMargin]_vars

\* ------------------------------------------------------------ exposure claims

\* C4: decrease_spot_open_bids_and_asks undoes increase_spot_open_bids_and_asks.
\* Once an increase of amount a in direction d has succeeded on a position,
\* the decrease with the same d and a succeeds and gives back the position
\* as it was, field for field; the increase itself touched only open_bids
\* (Long, + a) or only open_asks (Short, - a), and no other position.
C4_DecreaseInvertsIncrease ==
    (last.op = "increase" /\ last.ok) =>
        LET before == pre.positions[last.account]
            after == positions[last.account]
            r == decrease_spot_open_bids_and_asks(after, last.direction, last.amount)
        IN
        /\ r.ok
        /\ r.position = before
        /\ IF last.direction = Long
           THEN after = [before EXCEPT !.open_bids = @ + last.amount]
           ELSE after = [before EXCEPT !.open_asks = @ - last.amount]
        /\ \A y \in Accounts \ {last.account} : positions[y] = pre.positions[y]
        /\ spot_market = pre.market

\* A Short increase of a positive amount has succeeded, on a position that
\* also carries open bids.
C4_Witness ==
    /\ last.op = "increase" /\ last.ok
    /\ last.direction = Short /\ last.amount > 0
    /\ positions[last.account].open_bids > 0

\* ------------------------------------------------------------ ledger claims

\* C1 as stated: update_spot_position_balance is atomic; when it returns an
\* error, the market and the position are as they were before the call.
C1_AtomicOnError ==
    (last.op = "update" /\ ~last.ok) =>
        /\ spot_market = pre.market
        /\ positions = pre.positions

\* C1, amended: a successful update_spot_position_balance has applied both
\* the balance update and the cumulative_deposits update. A failed one has
\* not updated cumulative_deposits, and has left the market and the
\* position's balance as the balance update left them: when the balance
\* update succeeded and the cast or the checked increment or decrement
\* failed, its mutation stays. No other position is touched.
C1_CumulativeDepositsAtomic ==
    (last.op = "update") =>
        LET before == pre.positions[last.account]
            after == positions[last.account]
            b == update_spot_balances(last.amount, last.direction, pre.market,
                                      before, FALSE)
        IN
        /\ last.ok =>
              /\ b.ok
              /\ spot_market = b.market
              /\ after = [b.position EXCEPT !.cumulative_deposits =
                              before.cumulative_deposits
                              + Flow(last.direction, last.amount)]
        /\ ~last.ok =>
              /\ after.cumulative_deposits = before.cumulative_deposits
              /\ spot_market = b.market
              /\ after = b.position
        /\ \A y \in Accounts \ {last.account} : positions[y] = pre.positions[y]

\* An update has failed after the balance update was applied: the market and
\* the position's balance have moved, cumulative_deposits has not.
C1_Witness ==
    /\ last.op = "update" /\ ~last.ok
    /\ spot_market # pre.market
    /\ positions[last.account].balance # pre.positions[last.account].balance

\* C2: transfer_spot_position_deposit between positions of different market
\* indexes fails with the validation error and changes neither position nor
\* the market.
C2_TransferIndexMismatch ==
    (/\ last.op = "transfer"
     /\ pre.positions[last.account].market_index # pre.positions[last.to].market_index)
    =>  /\ ~last.ok
        /\ last.err = DefaultError
        /\ spot_market = pre.market
        /\ positions = pre.positions

\* A transfer of a positive amount, which the market could have served, was
\* made between positions of different market indexes.
C2_Witness ==
    /\ last.op = "transfer"
    /\ pre.positions[last.account].market_index # pre.positions[last.to].market_index
    /\ last.amount > 0
    /\ pre.market.deposit_balance >= last.amount * SPOT_BALANCE_PRECISION

C5_CumulativeDepositsIsNetFlow ==
    /\ \A x \in Accounts : positions[x].cumulative_deposits = net_flow[x]
    /\ (/\ last.op = "update" /\ last.ok
        /\ pre.positions[last.account].cumulative_deposits = 0)
       => positions[last.account].cumulative_deposits
             = IF last.direction = Deposit THEN last.amount ELSE -last.amount

\* A deposit of n was followed by a borrow of n, and cumulative_deposits is
\* back at its original value.
C5_Witness ==
    /\ last.op = "update" /\ last.ok
    /\ last.direction = Borrow /\ last.amount = 100
    /\ pre.positions[last.account].cumulative_deposits = 100
    /\ positions[last.account].cumulative_deposits = 0
    /\ spot_market.deposit_balance = 0

\* ------------------------------------------------------------ JIT claims

\* The auction price is unfavourable against the oracle price: the taker is
\* Long below it, or Short above it.
WashTrade(direction, auction_price, oracle_price) ==
    /\ oracle_price.some /\ oracle_price.val >= 0
    /\ \/ direction = Long /\ auction_price < oracle_price.val
       \/ direction = Short /\ auction_price > oracle_price.val

\* There is an oracle price and the auction price is not unfavourable.
Neutral(direction, auction_price, oracle_price) ==
    /\ oracle_price.some /\ oracle_price.val >= 0
    /\ ~WashTrade(direction, auction_price, oracle_price)

OpenBids(a) == Abs(calculate_market_open_bids_asks(a).max_bids)
OpenAsks(a) == Abs(calculate_market_open_bids_asks(a).max_asks)

\* The imbalance ratio max(bids, asks) / min(bids, asks) of a2 is at least
\* that of a1, both being defined.
MoreImbalanced(a2, a1) ==
    /\ Min(OpenBids(a1), OpenAsks(a1)) > 0
    /\ Min(OpenBids(a2), OpenAsks(a2)) > 0
    /\ Max(OpenBids(a2), OpenAsks(a2)) * Min(OpenBids(a1), OpenAsks(a1))
          >= Max(OpenBids(a1), OpenAsks(a1)) * Min(OpenBids(a2), OpenAsks(a2))

\* The AMM with another reserve and another upper bound of the reserve.
WithReserves(a, b, m) ==
    [a EXCEPT !.base_asset_reserve = b, !.max_base_asset_reserve = m]

\* C6: with no oracle price calculate_jit_base_asset_amount returns Ok(0),
\* whatever the AMM, the maker amount, the auction price and the direction.
C6_NoOracleGivesZero ==
    (jit.op = "jit" /\ ~jit.oracle_price.some) => (jit.ok /\ jit.val = 0)

\* The sizer was called with no oracle price and the maker amount of the
\* tests on an AMM whose imbalance ratio cannot be computed.
C6_Witness ==
    /\ jit.op = "jit" /\ ~jit.oracle_price.some
    /\ jit.amount = 100
    /\ ~amm_is_imbalanced(amm).ok
    /\ amm.amm_jit_intensity = 100 /\ amm.net_base_asset_amount = 100

\* C7 as stated: for the same AMM, maker amount and direction, the amount
\* returned under an unfavourable auction price is strictly smaller than the
\* amount returned under a neutral one.
C7_WashStrictlyLess ==
    (/\ jit.op = "jit" /\ jit.ok
     /\ Neutral(jit.direction, jit.auction_price, jit.oracle_price))
    => \A p \in AuctionPrices, o \in OraclePrices :
          WashTrade(jit.direction, p, o) =>
              LET r == calculate_jit_base_asset_amount(amm, jit.amount, p, o,
                                                       jit.direction)
              IN r.ok /\ r.val < jit.val

\* C7, amended: for the same AMM, maker amount and direction, the call under
\* an unfavourable auction price succeeds whenever the call under a neutral
\* one does, and the amount it returns is never larger; it is the same
\* amount when the neutral amount is within the quartered cap.
C7_WashNeverMore ==
    (/\ jit.op = "jit" /\ jit.ok
     /\ Neutral(jit.direction, jit.auction_price, jit.oracle_price))
    => \A p \in AuctionPrices, o \in OraclePrices :
          WashTrade(jit.direction, p, o) =>
              LET r == calculate_jit_base_asset_amount(amm, jit.amount, p, o,
                                                       jit.direction)
              IN /\ r.ok
                 /\ r.val <= jit.val
                 /\ jit.val <= (jit.amount \div 2) \div 4 => r.val = jit.val

\* A neutral call has returned a positive amount, and an unfavourable auction
\* price returns a smaller one.
C7_Witness ==
    /\ jit.op = "jit" /\ jit.ok /\ jit.val > 0
    /\ Neutral(jit.direction, jit.auction_price, jit.oracle_price)
    /\ \E p \in AuctionPrices, o \in OraclePrices :
          /\ WashTrade(jit.direction, p, o)
          /\ calculate_jit_base_asset_amount(amm, jit.amount, p, o,
                                             jit.direction).val < jit.val

\* C8: the amount is monotone in the imbalance. With the maker amount, the
\* prices, the direction, the intensity, the net position and the step size
\* fixed, an AMM whose imbalance ratio is at least as large, on either side
\* of the middle of the curve, returns at least as much.
C8_MonotoneInImbalance ==
    (jit.op = "jit" /\ jit.ok) =>
        \A b \in BaseAssetReserves, m \in MaxBaseAssetReserves :
            LET a2 == WithReserves(amm, b, m)
                r == calculate_jit_base_asset_amount(a2, jit.amount,
                         jit.auction_price, jit.oracle_price, jit.direction)
            IN (ValidAMM(a2) /\ MoreImbalanced(a2, amm) /\ r.ok)
                  => r.val >= jit.val

\* A balanced AMM has returned a positive amount, and an imbalanced one, on
\* each side of the middle, returns more.
C8_Witness ==
    /\ jit.op = "jit" /\ jit.ok /\ jit.val > 0
    /\ amm_is_imbalanced(amm).ok /\ ~amm_is_imbalanced(amm).val
    /\ \E b1 \in BaseAssetReserves, b2 \in BaseAssetReserves :
          /\ b1 < amm.base_asset_reserve /\ amm.base_asset_reserve < b2
          /\ \A b \in {b1, b2} :
                LET a2 == WithReserves(amm, b, amm.max_base_asset_reserve) IN
                /\ ValidAMM(a2) /\ MoreImbalanced(a2, amm)
                /\ calculate_jit_base_asset_amount(a2, jit.amount,
                       jit.auction_price, jit.oracle_price, jit.direction).val
                      > jit.val

\* C9: an amount calculate_jit_base_asset_amount returns is at most half the
\* maker amount, rounded down, and at most the size of the AMM's net
\* position.
C9_AtMostHalfAndNet ==
    (jit.op = "jit" /\ jit.ok) =>
        /\ jit.val <= jit.amount \div 2
        /\ jit.val <= Abs(amm.net_base_asset_amount)

\* An imbalanced AMM, whose amount before clamping is all of the maker's,
\* has returned exactly half the maker amount.
C9_Witness ==
    /\ jit.op = "jit" /\ jit.ok
    /\ jit.amount = 100 /\ jit.val = 50
    /\ amm_is_imbalanced(amm).ok /\ amm_is_imbalanced(amm).val

\* C10: calculate_clampped_jit_base_asset_amount succeeds when the intensity
\* is a percentage and the net position fits the amount type, and what it
\* returns is min(amount * intensity / 100, |net_base_asset_amount|), the
\* division truncating: 0 for an intensity of 0, 0 for a net position of 0,
\* the amount itself for an intensity of 100 and an amount not above the net
\* position, 50 for an intensity of 50, an amount of 100 and a net position
\* of 100.
C10_ClampIsMin ==
    (jit.op = "clamp") =>
        LET net == Abs(amm.net_base_asset_amount) IN
        /\ (amm.amm_jit_intensity <= 100 /\ net <= MaxU64) => jit.ok
        /\ jit.ok =>
              /\ jit.val = Min((jit.amount * amm.amm_jit_intensity) \div 100, net)
              /\ amm.amm_jit_intensity = 0 => jit.val = 0
              /\ net = 0 => jit.val = 0
              /\ (amm.amm_jit_intensity = 100 /\ jit.amount <= net)
                    => jit.val = jit.amount
              /\ (amm.amm_jit_intensity = 50 /\ jit.amount = 100 /\ net = 100)
                    => jit.val = 50

\* The clamp of 100 at half intensity with a net position of 100 was
\* computed.
C10_Witness ==
    /\ jit.op = "clamp" /\ jit.ok
    /\ amm.amm_jit_intensity = 50 /\ jit.amount = 100
    /\ Abs(amm.net_base_asset_amount) = 100
    /\ jit.val = 50

\* ------------------------------------------------------------ margin claims

\* The weights the validator is specified to accept for a market index.
WeightsAllowed(c) ==
    /\ IF c.spot_market_index = 0
       THEN /\ c.initial_asset_weight = SPOT_WEIGHT_PRECISION
            /\ c.maintenance_asset_weight = SPOT_WEIGHT_PRECISION
            /\ c.initial_liability_weight = SPOT_WEIGHT_PRECISION
            /\ c.maintenance_liability_weight = SPOT_WEIGHT_PRECISION
       ELSE /\ c.initial_asset_weight < SPOT_WEIGHT_PRECISION
            /\ 0 < c.maintenance_asset_weight
            /\ c.initial_asset_weight <= c.maintenance_asset_weight
            /\ c.maintenance_asset_weight < SPOT_WEIGHT_PRECISION
            /\ c.initial_liability_weight > SPOT_WEIGHT_PRECISION
            /\ SPOT_WEIGHT_PRECISION < c.maintenance_liability_weight
            /\ c.maintenance_liability_weight <= c.initial_liability_weight
    /\ c.imf_factor < SPOT_IMF_PRECISION

\* C11: validate_margin_weights succeeds exactly when, for market index 0,
\* all four weights equal the full weight, or, for any other index,
\* initial_asset_weight <= maintenance_asset_weight < full weight with
\* maintenance_asset_weight > 0 and full weight < maintenance_liability_weight
\* <= initial_liability_weight, and in both cases imf_factor is below its
\* ceiling; every other input is rejected with the validation error
\* InvalidSpotMarketInitialization.
C11_WeightsAcceptedExactly ==
    margin.op = "validate_margin_weights" =>
        /\ margin.ok <=> WeightsAllowed(margin)
        /\ margin.ok => margin.err = NoError
        /\ ~margin.ok => margin.err = InvalidSpotMarketInitialization

\* A market other than the quote market is accepted with its maintenance
\* liability weight equal to its initial one, one above the full weight.
C11_Witness ==
    /\ margin.op = "validate_margin_weights"
    /\ margin.ok
    /\ margin.spot_market_index # 0
    /\ margin.initial_asset_weight = margin.maintenance_asset_weight
    /\ margin.initial_liability_weight = SPOT_WEIGHT_PRECISION + 1
    /\ margin.maintenance_liability_weight = SPOT_WEIGHT_PRECISION + 1
    /\ margin.imf_factor = SPOT_IMF_PRECISION - 1

\* The parameters validate_margin is specified to accept.
MarginAllowed(c) ==
    /\ MINIMUM_MARGIN_RATIO <= c.margin_ratio_initial
    /\ c.margin_ratio_initial <= MAXIMUM_MARGIN_RATIO
    /\ MINIMUM_MARGIN_RATIO <= c.margin_ratio_maintenance
    /\ c.margin_ratio_maintenance <= MAXIMUM_MARGIN_RATIO
    /\ c.margin_ratio_initial >= c.margin_ratio_maintenance
    /\ c.margin_ratio_maintenance * LIQUIDATION_FEE_TO_MARGIN_PRECISION_RATIO
          > c.liquidation_fee
    /\ c.margin_ratio_initial * 100 > c.max_spread

\* C12: validate_margin succeeds if and only if both ratios lie between
\* MINIMUM_MARGIN_RATIO and MAXIMUM_MARGIN_RATIO, the initial ratio is at
\* least the maintenance ratio, the maintenance ratio times
\* LIQUIDATION_FEE_TO_MARGIN_PRECISION_RATIO strictly exceeds the liquidation
\* fee and the initial ratio times 100 strictly exceeds max_spread; otherwise
\* it returns InvalidMarginRatio. Its result is a verdict only: it carries no
\* clamped or corrected parameter.
C12_MarginAcceptedExactly ==
    margin.op = "validate_margin" =>
        /\ margin.ok <=> MarginAllowed(margin)
        /\ margin.ok => margin.err = NoError
        /\ ~margin.ok => margin.err = InvalidMarginRatio
        /\ DOMAIN validate_margin(margin.margin_ratio_initial,
                                  margin.margin_ratio_maintenance,
                                  margin.liquidation_fee,
                                  margin.max_spread) = {"ok", "err"}

\* Both ratios at the minimum are accepted with the largest fee and spread
\* they allow.
C12_Witness ==
    /\ margin.op = "validate_margin"
    /\ margin.ok
    /\ margin.margin_ratio_initial = MINIMUM_MARGIN_RATIO
    /\ margin.margin_ratio_maintenance = MINIMUM_MARGIN_RATIO
    /\ margin.liquidation_fee
          = MINIMUM_MARGIN_RATIO * LIQUIDATION_FEE_TO_MARGIN_PRECISION_RATIO - 1
    /\ margin.max_spread = MINIMUM_MARGIN_RATIO * 100 - 1

====
